---- MODULE Spec2Model ----
(***************************************************************************)
(* Model of AutoDeleteManager (src/src/utils/AutoDeleteManager.js): the    *)
(* scan / select / delete state machine, its poll timer, its three-step    *)
(* interaction workflow and its status events.                             *)
(*                                                                         *)
(* Text that the code inspects character by character (user names, paths,  *)
(* hrefs, the data-ghosted attribute) is a sequence of one-character       *)
(* strings.  Messages that the code only stores and compares are strings.  *)
(* An optional value is a sequence of length at most one: <<>> is null.    *)
(***************************************************************************)
EXTENDS Integers, Sequences, FiniteSets, TLC

VARIABLES
    state,        \* this.state: running, deleting, deletedCount, lastError
    loopHandle,   \* this.loopHandle: 0 is null, otherwise an interval id
    intervals,    \* window: ids of the recurring timers currently armed
    flows,        \* activations of runCycle suspended inside deleteArticle
    getUsername,  \* collaborator: raw user name returned by getUsername()
    isWithReplies,\* collaborator: value returned by isWithReplies()
    pathname,     \* window.location.pathname
    document,     \* the flagged part of the DOM: a sequence of cells
    lastOp,       \* the most recent operation and what it did
    halted        \* stop() or destroy() was called and start() not since

vars == <<state, loopHandle, intervals, flows, getUsername, isWithReplies,
          pathname, document, lastOp, halted>>

----------------------------------------------------------------------------
(* Bounds of the model.                                                    *)

MaxDeleted == 2

\* the documents of the specification of target selection
MaxCells == 2

MaxArticles == 2

----------------------------------------------------------------------------
(* Optional values and JavaScript truthiness of an optional string.        *)

Null == <<>>

Some(v) == <<v>>

Truthy(o) == o # Null /\ o[1] # ""

\* a || b on optional strings
OrElse(a, b) == IF Truthy(a) THEN a ELSE b

----------------------------------------------------------------------------
(* Character-level string functions.                                       *)

Upper == <<"A", "B", "P", "Q">>

LowerOf == <<"a", "b", "p", "q">>

LowerChar(c) ==
    IF \E k \in DOMAIN Upper : Upper[k] = c
    THEN LowerOf[CHOOSE k \in DOMAIN Upper : Upper[k] = c]
    ELSE c

ToLowerCase(s) == [k \in DOMAIN s |-> LowerChar(s[k])]

RECURSIVE TrimStart(_)
TrimStart(s) ==
    IF s # <<>> /\ s[1] = " " THEN TrimStart(Tail(s)) ELSE s

RECURSIVE TrimEnd(_)
TrimEnd(s) ==
    IF s # <<>> /\ s[Len(s)] = " "
    THEN TrimEnd(SubSeq(s, 1, Len(s) - 1))
    ELSE s

Trim(s) == TrimEnd(TrimStart(s))

\* s.replace(/^@/, "")
StripAt(s) == IF s # <<>> /\ s[1] = "@" THEN Tail(s) ELSE s

StartsWith(s, p) == Len(p) <= Len(s) /\ SubSeq(s, 1, Len(p)) = p

EndsWith(s, p) ==
    Len(p) <= Len(s) /\ SubSeq(s, Len(s) - Len(p) + 1, Len(s)) = p

Includes(s, p) ==
    \E k \in 0..(Len(s) - Len(p)) : SubSeq(s, k + 1, k + Len(p)) = p

----------------------------------------------------------------------------
(* Domain data of the source.                                              *)

WITH_REPLIES ==
    <<"/", "w", "i", "t", "h", "_", "r", "e", "p", "l", "i", "e", "s">>

PROBLEM_MARKERS == <<
    <<"p", "o", "s", "t", "q", "u", "a", "l", "i", "t", "y", ".",
      "p", "r", "o", "b", "l", "e", "m">>,
    <<"p", "o", "s", "t", "q", "u", "a", "l", "i", "t", "y", ".",
      "p", "r", "o", "b", "l", "e", "m", "-", "a", "d", "j", "a", "c", "e",
      "n", "t">>,
    <<"p", "o", "s", "t", "q", "u", "a", "l", "i", "t", "y", ".",
      "p", "o", "t", "e", "n", "t", "i", "a", "l", "-", "p", "r", "o", "b",
      "l", "e", "m">> >>

CARET_RETRIES == 5

MENU_ATTEMPTS == 4

CONFIRM_ATTEMPTS == 4

MSG_NEED_USERNAME ==
    "Open your profile's /with_replies page to capture the username."

MSG_ONLY_WITH_REPLIES ==
    "Auto delete is only available on the /with_replies view."

MSG_NAVIGATE_OWN ==
    "Navigate to your own /with_replies page to enable auto delete."

----------------------------------------------------------------------------------------------------------------------------------------
(* Identity and availability, as functions of what the collaborators       *)
(* return.                                                                 *)

NormalizedUsername(raw) == ToLowerCase(StripAt(Trim(raw)))

OnRepliesPage(raw, replies, path) ==
    LET username == NormalizedUsername(raw)
    IN  IF username = <<>>
        THEN FALSE
        ELSE /\ replies
             /\ StartsWith(ToLowerCase(path), <<"/">> \o username)
             /\ EndsWith(ToLowerCase(path), WITH_REPLIES)

CanOperate(raw, replies, path) ==
    NormalizedUsername(raw) # <<>> /\ OnRepliesPage(raw, replies, path)

UnavailableReason(raw, replies) ==
    IF NormalizedUsername(raw) = <<>> THEN MSG_NEED_USERNAME
    ELSE IF ~replies THEN MSG_ONLY_WITH_REPLIES
    ELSE MSG_NAVIGATE_OWN

----------------------------------------------------------------------------
(* Target selection, as a function of the identity and the document.       *)

\* isTweetByUser that compares the prefix without the closing slash
TweetByUser_PrefixOnly(raw, article) ==
    LET username == NormalizedUsername(raw)
        matches(h) ==
            LET href == ToLowerCase(h)
            IN  /\ StartsWith(href, <<"/">>)
                /\ StartsWith(href, <<"/">> \o username)
    IN  IF username = <<>>
        THEN FALSE
        ELSE /\ \E k \in DOMAIN article.hrefs : matches(article.hrefs[k])
             /\ ~article.unretweet

TweetByUser(raw, article) ==
    LET username == NormalizedUsername(raw)
        matches(h) ==
            LET href == ToLowerCase(h)
            IN  /\ StartsWith(href, <<"/">>)
                /\ \/ href = <<"/">> \o username
                   \/ StartsWith(href, <<"/">> \o username \o <<"/">>)
    IN  IF username = <<>>
        THEN FALSE
        ELSE /\ \E k \in DOMAIN article.hrefs : matches(article.hrefs[k])
             /\ ~article.unretweet

\* the cells of the document that carry one of the problem markers
AllFlaggedCells(doc) ==
    LET flagged(cell) ==
            \E m \in DOMAIN PROBLEM_MARKERS :
                Includes(ToLowerCase(cell.ghosted), PROBLEM_MARKERS[m])
    IN  SelectSeq(doc, flagged)

TargetArticleFromCell(raw, cell) ==
    LET byUser(article) == TweetByUser(raw, article)
        hits == SelectSeq(cell.articles, byUser)
    IN  IF hits = <<>> THEN Null ELSE Some(hits[1].id)

FirstFlaggedArticle(raw, doc) ==
    LET cells == AllFlaggedCells(doc)
        found(cell) == TargetArticleFromCell(raw, cell) # Null
        hits == SelectSeq(cells, found)
    IN  IF hits = <<>> THEN Null ELSE TargetArticleFromCell(raw, hits[1])

----------------
(* The environment: the contexts the page can be in and the documents it   *)
(* can show.                                                               *)

Contexts == {
    \* no identity resolved
    [user |-> <<" ">>, replies |-> TRUE,
     path |-> <<"/", "A", "l", "/", "w", "i", "t", "h", "_", "r", "e", "p",
                "l", "i", "e", "s">>],
    \* the qualifying view of the user's own profile
    [user |-> <<"@", "A", "l", " ">>, replies |-> TRUE,
     path |-> <<"/", "A", "l", "/", "w", "i", "t", "h", "_", "r", "e", "p",
                "l", "i", "e", "s">>],
    \* not a /with_replies view
    [user |-> <<"@", "A", "l", " ">>, replies |-> FALSE,
     path |-> <<"/", "a", "l">>],
    \* the /with_replies view of somebody else
    [user |-> <<"@", "A", "l", " ">>, replies |-> TRUE,
     path |-> <<"/", "b", "o", "/", "w", "i", "t", "h", "_", "r", "e", "p",
                "l", "i", "e", "s">>] }

Documents == {
    <<>>,
    << [ghosted |-> <<"P", "o", "s", "t", "Q", "u", "a", "l", "i", "t", "y",
                      ".", "P", "r", "o", "b", "l", "e", "m">>,
        articles |-> << [id |-> 1, unretweet |-> FALSE,
                         hrefs |-> << <<"/", "A", "l", "/", "s", "t", "a",
                                        "t", "u", "s", "/", "1">> >>] >>] >> }

\* a timeline with two flagged posts of the user, and the same timeline
\* without the first of them
BadFirst ==
    << [ghosted |-> <<"P", "o", "s", "t", "Q", "u", "a", "l", "i", "t", "y",
                      ".", "P", "r", "o", "b", "l", "e", "m">>,
        articles |-> << [id |-> 1, unretweet |-> FALSE,
                         hrefs |-> << <<"/", "A", "l", "/", "s", "t", "a",
                                        "t", "u", "s", "/", "1">> >>] >>],
       [ghosted |-> <<"P", "o", "s", "t", "Q", "u", "a", "l", "i", "t", "y",
                      ".", "P", "r", "o", "b", "l", "e", "m">>,
        articles |-> << [id |-> 2, unretweet |-> FALSE,
                         hrefs |-> << <<"/", "a", "l", "/", "s", "t", "a",
                                        "t", "u", "s", "/", "2">> >>] >>] >>

GoodOnly == SubSeq(BadFirst, 2, 2)

ProgDocuments == {BadFirst, GoodOnly}

\* reasons a caller passes to stop(): none, the empty string, a message
Reasons == {Null, Some(""), Some("manual")}

Users == {c.user : c \in Contexts}

Paths == {c.path : c \in Contexts}

\* The functions above on the values the environment takes, tabulated.
Normalized == [u \in Users |-> NormalizedUsername(u)]

Operable == [u \in Users, r \in BOOLEAN, p \in Paths |-> CanOperate(u, r, p)]

Reason == [u \in Users, r \in BOOLEAN |-> UnavailableReason(u, r)]

Target ==
    [u \in Users, d \in Documents \cup ProgDocuments |->
        FirstFlaggedArticle(u, d)]

getNormalizedUsername == Normalized[getUsername]

canOperate == Operable[getUsername, isWithReplies, pathname]

getUnavailableReason == Reason[getUsername, isWithReplies]

findFirstFlaggedArticle == Target[getUsername, document]

----------------------------------------------------------------------------
(* The agent as a record m: the fields of the instance, the window's       *)
(* timers, the suspended activations, and what the operation in progress   *)
(* has done so far (status events, log lines, stop() calls, workflows      *)
(* begun and ended).                                                       *)

\* Thrown values: an Error object with a message, or a primitive string.
Thrown == { [isError |-> TRUE, text |-> "boom"],
            [isError |-> FALSE, text |-> ""] }

\* error?.message || String(error)
ErrorText(e) ==
    IF e.isError
    THEN (IF e.text # "" THEN e.text ELSE "Error")
    ELSE e.text

\* What the page answers to one lookup and to the click that may follow.
NoError == [isError |-> FALSE, text |-> ""]

Responses == { u \in [see : {"visible", "absent", "throws"},
               click : {"ok", "throws"},
               error : Thrown] :
          /\ u.see # "visible" => u.click = "ok"
          /\ u.see = "absent" \/ (u.see = "visible" /\ u.click = "ok")
                 => u.error = NoError }

Quiet == [see |-> "absent", click |-> "ok", error |-> NoError]

\* the responses the page can give to the lookups and clicks of one step:
\* a step that asks the page nothing gets the one response Quiet
UI(asks) == IF asks THEN Responses ELSE {Quiet}

composeMessage(s) ==
    IF getNormalizedUsername = <<>>
    THEN "Open a /with_replies page to detect your username."
    ELSE IF ~isWithReplies
    THEN "Auto delete becomes available on /with_replies."
    ELSE IF s.deleting THEN "Deleting a flagged reply..."
    ELSE IF s.running THEN "Scanning flagged replies..."
    ELSE "Ready to delete flagged replies."

StatusDetail(s) ==
    [running |-> s.running,
     deleting |-> s.deleting,
     deletedCount |-> s.deletedCount,
     username |-> IF getNormalizedUsername = <<>>
                  THEN Null ELSE Some(getNormalizedUsername),
     canRun |-> canOperate,
     message |-> OrElse(s.lastError, Some(composeMessage(s)))]

log(m, line) == [m EXCEPT !.logs = Append(@, line)]

emitStatus(m) ==
    [m EXCEPT !.emits = @ + 1, !.status = Some(StatusDetail(m.state))]

\* window.setInterval: a timer id that is not in use
FreshInterval(used) == CHOOSE id \in 1..(Cardinality(used) + 1) : id \notin used

ensureLoop(m) ==
    IF m.loopHandle # 0
    THEN m
    ELSE LET id == FreshInterval(m.intervals)
         IN  [m EXCEPT !.loopHandle = id, !.intervals = @ \cup {id}]

\* clearLoop that forgets the handle without cancelling the timer
clearLoop_TimerLeft(m) ==
    IF m.loopHandle # 0
    THEN [m EXCEPT !.loopHandle = 0]
    ELSE m

clearLoop(m) ==
    IF m.loopHandle # 0
    THEN [m EXCEPT !.intervals = @ \ {m.loopHandle}, !.loopHandle = 0]
    ELSE m

\* stop whose idle branch assigns the reason even when there is none
stop_ReasonAssigned(m, reason) ==
    LET called == [m EXCEPT !.stops = @ + 1]
    IN  IF ~m.state.running
        THEN emitStatus([called EXCEPT !.state.lastError = reason])
        ELSE emitStatus(log(clearLoop([called EXCEPT
                 !.state.running = FALSE,
                 !.state.lastError =
                     IF Truthy(reason) THEN reason ELSE m.state.lastError]),
                 "Stopped"))

\* stop that leaves the poll timer armed
stop_LoopKept(m, reason) ==
    LET called == [m EXCEPT !.stops = @ + 1]
    IN  IF ~m.state.running
        THEN emitStatus([called EXCEPT
                 !.state.lastError = OrElse(reason, m.state.lastError)])
        ELSE emitStatus(log([called EXCEPT
                 !.state.running = FALSE,
                 !.state.lastError =
                     IF Truthy(reason) THEN reason ELSE m.state.lastError],
                 "Stopped"))

stop(m, reason) ==
    LET called == [m EXCEPT !.stops = @ + 1]
    IN  IF ~m.state.running
        THEN emitStatus([called EXCEPT
                 !.state.lastError = OrElse(reason, m.state.lastError)])
        ELSE emitStatus(log(clearLoop([called EXCEPT
                 !.state.running = FALSE,
                 !.state.lastError =
                     IF Truthy(reason) THEN reason ELSE m.state.lastError]),
                 "Stopped"))

destroy(m) == clearLoop(m)

----------------------------------------------------------------------------
(* The workflow: deleteArticle and its three retry loops.  A flow is one   *)
(* activation of runCycle suspended inside deleteArticle; pc names the     *)
(* await it is suspended at and i the loop index of that await.  tries     *)
(* counts the lookups the retry loop it is in has made, clicks lists the   *)
(* clicks made, count0 is deletedCount when the workflow began and         *)
(* restarted tells that start() has reset the counter since.               *)

NewFlow(m, article) ==
    [pc |-> "start", i |-> 0, article |-> article, error |-> Null,
     count0 |-> m.state.deletedCount, restarted |-> FALSE,
     tries |-> 0, clicks |-> <<>>]

\* the end of runCycle without the increment of the counter
Settle_NotCounted(m, k, result, error) ==
    LET f == m.flows[k]
        caught == IF result = "exception"
                  THEN [log(m, "Error deleting post") EXCEPT
                           !.state.lastError = Some(ErrorText(error))]
                  ELSE m
        rest == [j \in 1..(Len(m.flows) - 1) |->
                    IF j < k THEN m.flows[j] ELSE m.flows[j + 1]]
    IN  emitStatus([caught EXCEPT
            !.state.deleting = FALSE,
            !.flows = rest,
            !.done = Append(@, [result |-> result, flow |-> f])])

\* the end of runCycle with the increment outside the test of the result
Settle_AlwaysCounted(m, k, result, error) ==
    LET f == m.flows[k]
        counted == log([m EXCEPT !.state.deletedCount = @ + 1],
                       "Deleted flagged post")
        caught == IF result = "exception"
                  THEN [log(counted, "Error deleting post") EXCEPT
                           !.state.lastError = Some(ErrorText(error))]
                  ELSE counted
        rest == [j \in 1..(Len(m.flows) - 1) |->
                    IF j < k THEN m.flows[j] ELSE m.flows[j + 1]]
    IN  emitStatus([caught EXCEPT
            !.state.deleting = FALSE,
            !.flows = rest,
            !.done = Append(@, [result |-> result, flow |-> f])])

\* lines 140-152 of runCycle: what follows the await of deleteArticle
Settle(m, k, result, error) ==
    LET f == m.flows[k]
        counted == IF result = "success"
                   THEN log([m EXCEPT !.state.deletedCount = @ + 1],
                            "Deleted flagged post")
                   ELSE m
        caught == IF result = "exception"
                  THEN [log(counted, "Error deleting post") EXCEPT
                           !.state.lastError = Some(ErrorText(error))]
                  ELSE counted
        rest == [j \in 1..(Len(m.flows) - 1) |->
                    IF j < k THEN m.flows[j] ELSE m.flows[j + 1]]
    IN  emitStatus([caught EXCEPT
            !.state.deleting = FALSE,
            !.flows = rest,
            !.done = Append(@, [result |-> result, flow |-> f])])

\* caret.click() and the await of the first inter-step delay
ClickCaret(m, k, ui) ==
    IF ui.click = "throws"
    THEN Settle(m, k, "exception", ui.error)
    ELSE [m EXCEPT !.flows[k].pc = "stepWait",
                   !.flows[k].i = 0,
                   !.flows[k].tries = 0,
                   !.flows[k].clicks = Append(@, "caret")]

\* a resumed iteration of findCaretWithRetry with loop index i
CaretLookup(m, k, i, ui) ==
    LET looked == [m EXCEPT !.flows[k].tries = @ + 1, !.flows[k].i = i]
    IN  CASE ui.see = "throws" -> Settle(looked, k, "exception", ui.error)
          [] ui.see = "visible" -> ClickCaret(looked, k, ui)
          [] OTHER -> [looked EXCEPT !.flows[k].pc = "caretWait"]

\* the first iteration, run synchronously by the caller of runCycle: its
\* result reaches deleteArticle only in a later microtask
FirstCaretLookup(m, k, ui) ==
    LET looked == [m EXCEPT !.flows[k].tries = @ + 1]
    IN  CASE ui.see = "throws" ->
                 [looked EXCEPT !.flows[k].pc = "rejected",
                                !.flows[k].error = Some(ui.error)]
          [] ui.see = "visible" -> [looked EXCEPT !.flows[k].pc = "caretFound"]
          [] OTHER -> [looked EXCEPT !.flows[k].pc = "caretWait"]

findCaretWithRetry(m, k, ui) ==
    LET f == m.flows[k]
    IN  IF f.i + 1 < CARET_RETRIES
        THEN CaretLookup(m, k, f.i + 1, ui)
        ELSE Settle(log(m, "Caret button not found"), k, "negative",
                    ui.error)

\* the menu loop without its attempt ceiling
tryClickDeleteMenuItem_NoCeiling(m, k, ui) ==
    LET f == m.flows[k]
        scanned == [m EXCEPT !.flows[k].tries = @ + 1]
    IN  CASE ui.see = "throws" -> Settle(scanned, k, "exception", ui.error)
          [] ui.see = "visible" ->
                 IF ui.click = "throws"
                 THEN Settle(scanned, k, "exception", ui.error)
                 ELSE [scanned EXCEPT !.flows[k].pc = "confirmWait",
                                      !.flows[k].i = 0,
                                      !.flows[k].tries = 0,
                                      !.flows[k].clicks = Append(@, "delete")]
          [] OTHER -> [scanned EXCEPT !.flows[k].i = f.i + 1]

\* deleteArticle going on to the confirm step when no menu item was clicked
tryClickDeleteMenuItem_FallsThrough(m, k, ui) ==
    LET f == m.flows[k]
        scanned == [m EXCEPT !.flows[k].tries = @ + 1]
    IN  CASE ui.see = "throws" -> Settle(scanned, k, "exception", ui.error)
          [] ui.see = "visible" ->
                 IF ui.click = "throws"
                 THEN Settle(scanned, k, "exception", ui.error)
                 ELSE [scanned EXCEPT !.flows[k].pc = "confirmWait",
                                      !.flows[k].i = 0,
                                      !.flows[k].tries = 0,
                                      !.flows[k].clicks = Append(@, "delete")]
          [] OTHER ->
                 IF f.i + 1 < MENU_ATTEMPTS
                 THEN [scanned EXCEPT !.flows[k].i = f.i + 1]
                 ELSE [log(scanned, "Delete menu item not clicked") EXCEPT
                          !.flows[k].pc = "confirmWait",
                          !.flows[k].i = 0,
                          !.flows[k].tries = 0]

tryClickDeleteMenuItem(m, k, ui) ==
    LET f == m.flows[k]
        scanned == [m EXCEPT !.flows[k].tries = @ + 1]
    IN  CASE ui.see = "throws" -> Settle(scanned, k, "exception", ui.error)
          [] ui.see = "visible" ->
                 IF ui.click = "throws"
                 THEN Settle(scanned, k, "exception", ui.error)
                 ELSE [scanned EXCEPT !.flows[k].pc = "confirmWait",
                                      !.flows[k].i = 0,
                                      !.flows[k].tries = 0,
                                      !.flows[k].clicks = Append(@, "delete")]
          [] OTHER ->
                 IF f.i + 1 < MENU_ATTEMPTS
                 THEN [scanned EXCEPT !.flows[k].i = f.i + 1]
                 ELSE Settle(log(scanned, "Delete menu item not clicked"),
                             k, "negative", ui.error)

tryConfirmDelete(m, k, ui) ==
    LET f == m.flows[k]
        looked == [m EXCEPT !.flows[k].tries = @ + 1]
    IN  CASE ui.see = "throws" -> Settle(looked, k, "exception", ui.error)
          [] ui.see = "visible" ->
                 IF ui.click = "throws"
                 THEN Settle(looked, k, "exception", ui.error)
                 ELSE [looked EXCEPT !.flows[k].pc = "afterDelete",
                                     !.flows[k].i = 0,
                                     !.flows[k].tries = 0,
                                     !.flows[k].clicks = Append(@, "confirm")]
          [] OTHER ->
                 IF f.i + 1 < CONFIRM_ATTEMPTS
                 THEN [looked EXCEPT !.flows[k].i = f.i + 1]
                 ELSE Settle(log(looked, "Confirm delete button not found"),
                             k, "negative", ui.error)

\* the continuation of flow k after the await it is suspended at (the
\* attempt ceilings are positive, so each retry loop awaits its first delay)
deleteArticle(m, k, ui) ==
    LET f == m.flows[k]
    IN  CASE f.pc = "caretFound" -> ClickCaret(m, k, ui)
          [] f.pc = "rejected" -> Settle(m, k, "exception", f.error[1])
          [] f.pc = "caretWait" -> findCaretWithRetry(m, k, ui)
          [] f.pc = "stepWait" ->
                 [m EXCEPT !.flows[k].pc = "menuWait", !.flows[k].i = 0]
          [] f.pc = "menuWait" -> tryClickDeleteMenuItem(m, k, ui)
          [] f.pc = "confirmWait" -> tryConfirmDelete(m, k, ui)
          [] f.pc = "afterDelete" -> Settle(m, k, "success", ui.error)

----------------------------------------------------------------------------
(* The scan cycle and the operations that trigger it.                      *)

\* runCycle without the test of the busy flag
runCycle_BusyIgnored(m, ui) ==
    IF ~m.state.running
    THEN m
    ELSE IF ~canOperate
    THEN stop(m, Some(getUnavailableReason))
    ELSE IF findFirstFlaggedArticle = Null
    THEN m
    ELSE LET busy == emitStatus([m EXCEPT !.state.deleting = TRUE])
             k == Len(m.flows) + 1
             begun == [busy EXCEPT
                          !.flows = Append(@,
                              NewFlow(m, findFirstFlaggedArticle[1])),
                          !.begun = @ + 1]
         IN  FirstCaretLookup(begun, k, ui)

\* runCycle that sets the busy flag without publishing it
runCycle_BusyUnpublished(m, ui) ==
    IF ~m.state.running \/ m.state.deleting
    THEN m
    ELSE IF ~canOperate
    THEN stop(m, Some(getUnavailableReason))
    ELSE IF findFirstFlaggedArticle = Null
    THEN m
    ELSE LET busy == [m EXCEPT !.state.deleting = TRUE]
             k == Len(m.flows) + 1
             begun == [busy EXCEPT
                          !.flows = Append(@,
                              NewFlow(m, findFirstFlaggedArticle[1])),
                          !.begun = @ + 1]
         IN  FirstCaretLookup(begun, k, ui)

\* runCycle without the second test of availability
runCycle_NotRechecked(m, ui) ==
    IF ~m.state.running \/ m.state.deleting
    THEN m
    ELSE IF findFirstFlaggedArticle = Null
    THEN m
    ELSE LET busy == emitStatus([m EXCEPT !.state.deleting = TRUE])
             k == Len(m.flows) + 1
             begun == [busy EXCEPT
                          !.flows = Append(@,
                              NewFlow(m, findFirstFlaggedArticle[1])),
                          !.begun = @ + 1]
         IN  FirstCaretLookup(begun, k, ui)

runCycle(m, ui) ==
    IF ~m.state.running \/ m.state.deleting
    THEN m
    ELSE IF ~canOperate
    THEN stop(m, Some(getUnavailableReason))
    ELSE IF findFirstFlaggedArticle = Null
    THEN m
    ELSE LET busy == emitStatus([m EXCEPT !.state.deleting = TRUE])
             k == Len(m.flows) + 1
             begun == [busy EXCEPT
                          !.flows = Append(@,
                              NewFlow(m, findFirstFlaggedArticle[1])),
                          !.begun = @ + 1]
         IN  FirstCaretLookup(begun, k, ui)

\* start without the test of availability
start_Unchecked(m, ui) ==
    IF m.state.running
    THEN m
    ELSE LET set == [m EXCEPT
                 !.state.running = TRUE,
                 !.state.deletedCount = 0,
                 !.state.lastError = Null,
                 !.flows = [j \in DOMAIN m.flows |->
                               [m.flows[j] EXCEPT !.restarted = TRUE]]]
         IN  runCycle(emitStatus(ensureLoop(log(set, "Started"))), ui)

\* start that leaves the first scan cycle to the timer
start_CycleDeferred(m, ui) ==
    IF m.state.running
    THEN m
    ELSE IF ~canOperate
    THEN emitStatus([m EXCEPT
             !.state.lastError = Some(getUnavailableReason)])
    ELSE LET set == [m EXCEPT
                 !.state.running = TRUE,
                 !.state.deletedCount = 0,
                 !.state.lastError = Null,
                 !.flows = [j \in DOMAIN m.flows |->
                               [m.flows[j] EXCEPT !.restarted = TRUE]]]
         IN  emitStatus(ensureLoop(log(set, "Started")))

start(m, ui) ==
    IF m.state.running
    THEN m
    ELSE IF ~canOperate
    THEN emitStatus([m EXCEPT
             !.state.lastError = Some(getUnavailableReason)])
    ELSE LET set == [m EXCEPT
                 !.state.running = TRUE,
                 !.state.deletedCount = 0,
                 !.state.lastError = Null,
                 !.flows = [j \in DOMAIN m.flows |->
                               [m.flows[j] EXCEPT !.restarted = TRUE]]]
         IN  runCycle(emitStatus(ensureLoop(log(set, "Started"))), ui)

\* handleContextChange without the return after stop
handleContextChange_NoReturn(m) ==
    IF m.state.running /\ ~canOperate
    THEN emitStatus(stop(m, Some(getUnavailableReason)))
    ELSE emitStatus(m)

handleContextChange(m) ==
    IF m.state.running /\ ~canOperate
    THEN stop(m, Some(getUnavailableReason))
    ELSE emitStatus(m)

----------------------------------------------------------------------------
(* State machine.                                                          *)

\* the agent at the beginning of an operation
Agent ==
    [state |-> state, loopHandle |-> loopHandle, intervals |-> intervals,
     flows |-> flows, emits |-> 0, status |-> Null, logs |-> <<>>,
     stops |-> 0, begun |-> 0, done |-> <<>>]

\* the state after operation op(arg) has taken the agent to m
Commit(after, op, arg) ==
  \E m \in {after} :
    /\ state' = m.state
    /\ loopHandle' = m.loopHandle
    /\ intervals' = m.intervals
    /\ flows' = m.flows
    /\ lastOp' = [op |-> op, arg |-> arg, emits |-> m.emits,
                  status |-> m.status, logs |-> m.logs, stops |-> m.stops,
                  begun |-> m.begun, done |-> m.done]
    /\ halted' = IF op = "start" THEN FALSE
                 ELSE IF op = "destroy" \/ m.stops > 0 THEN TRUE
                 ELSE halted
    /\ UNCHANGED <<getUsername, isWithReplies, pathname, document>>

\* a step in which the agent did nothing
Idle(op) ==
    [op |-> op, arg |-> Null, emits |-> 0, status |-> Null, logs |-> <<>>,
     stops |-> 0, begun |-> 0, done |-> <<>>]

Init ==
    /\ state = [running |-> FALSE, deleting |-> FALSE, deletedCount |-> 0,
                lastError |-> Null]
    /\ loopHandle = 0
    /\ intervals = {}
    /\ flows = <<>>
    /\ \E c \in Contexts :
          /\ getUsername = c.user
          /\ isWithReplies = c.replies
          /\ pathname = c.path
    /\ document \in Documents
    /\ lastOp = Idle("new")
    /\ halted = FALSE

\* runCycle would call deleteArticle, which looks the caret up at once
Begins(m) ==
    /\ m.state.running
    /\ ~m.state.deleting
    /\ canOperate
    /\ findFirstFlaggedArticle # Null

\* the continuation of flow f queries or clicks the page
Asks(f) == f.pc \in {"caretFound", "caretWait", "menuWait", "confirmWait"}

Start ==
    \E ui \in UI(~state.running /\ canOperate
                  /\ findFirstFlaggedArticle # Null) :
        Commit(start(Agent, ui), "start", Null)

Stop ==
    \E reason \in Reasons : Commit(stop(Agent, reason), "stop", reason)

Destroy == Commit(destroy(Agent), "destroy", Null)

HandleContextChange ==
    Commit(handleContextChange(Agent), "handleContextChange", Null)

HandleToggle ==
    \E enabled \in BOOLEAN,
       ui \in UI(~state.running /\ canOperate
                  /\ findFirstFlaggedArticle # Null) :
        IF enabled
        THEN Commit(start(Agent, ui), "start", Null)
        ELSE Commit(stop(Agent, Null), "stop", Null)

\* the callback of an armed recurring timer
Tick ==
    \E id \in intervals, ui \in UI(Begins(Agent)) :
        LET m == runCycle(Agent, ui)
        IN  /\ m.begun > 0 => state.deletedCount < MaxDeleted
            /\ Commit(m, "tick", Null)

\* a suspended activation is resumed by its delay or by its microtask
Resume ==
    \E k \in DOMAIN flows :
      \E ui \in UI(Asks(flows[k])) :
        Commit(deleteArticle(Agent, k, ui), "resume", Null)

\* the page changes the identity, the view or the location
Navigate ==
    \E c \in Contexts :
        /\ <<getUsername, isWithReplies, pathname>>
               # <<c.user, c.replies, c.path>>
        /\ getUsername' = c.user
        /\ isWithReplies' = c.replies
        /\ pathname' = c.path
        /\ lastOp' = Idle("navigate")
        /\ UNCHANGED <<state, loopHandle, intervals, flows, document,
                       halted>>

\* the page re-renders the timeline
Render ==
    \E d \in Documents :
        /\ d # document
        /\ document' = d
        /\ lastOp' = Idle("render")
        /\ UNCHANGED <<state, loopHandle, intervals, flows, getUsername,
                       isWithReplies, pathname, halted>>

Next ==
    \/ Start
    \/ Stop
    \/ Destroy
    \/ HandleContextChange
    \/ HandleToggle
    \/ Tick
    \/ Resume
    \/ Navigate
    \/ Render

Spec == Init /\ [][Next]_vars

----------------------------------------------------------------------------
(* Target selection on its own: the identity and the document are drawn    *)
(* from bounded sets and findFirstFlaggedArticle is applied to them.       *)

\* content units: by Al next to a link to Bo, a repost by Al, by Bo, and
\* by a user whose name begins with "al"
SelArticles == {
    [id |-> 0, unretweet |-> FALSE,
     hrefs |-> << <<"/", "h", "o", "m", "e">>,
                  <<"/", "A", "l", "/", "s", "t", "a", "t", "u", "s", "/",
                    "1">> >>],
    [id |-> 0, unretweet |-> TRUE, hrefs |-> << <<"/", "a", "l">> >>],
    [id |-> 0, unretweet |-> FALSE, hrefs |-> << <<"/", "B", "o">> >>],
    [id |-> 0, unretweet |-> FALSE,
     hrefs |-> << <<"/", "a", "l", "x", "/", "s", "t", "a", "t", "u", "s",
                    "/", "3">> >>] }

SelGhosted == {
    <<"o", "k">>,
    <<"x", " ", "P", "o", "s", "t", "Q", "u", "a", "l", "i", "t", "y", ".",
      "P", "o", "t", "e", "n", "t", "i", "a", "l", "-", "p", "r", "o", "b",
      "l", "e", "m">> }

SelUsers == { <<"@", "A", "l", " ">>, <<"B", "o">> }

SeqsUpTo(S, n) == UNION {[1..k -> S] : k \in 0..n}

\* a unit is identified by its place: 10 * cell + index in the cell
Placed(doc) ==
    [i \in DOMAIN doc |->
        [ghosted |-> doc[i].ghosted,
         articles |-> [j \in DOMAIN doc[i].articles |->
                          [doc[i].articles[j] EXCEPT !.id = 10 * i + j]]]]

SelDocuments ==
    {Placed(doc) : doc \in SeqsUpTo([ghosted : SelGhosted,
                                     articles : SeqsUpTo(SelArticles,
                                                         MaxArticles)],
                                    MaxCells)}

SelInit ==
    /\ state = [running |-> FALSE, deleting |-> FALSE, deletedCount |-> 0,
                lastError |-> Null]
    /\ loopHandle = 0
    /\ intervals = {}
    /\ flows = <<>>
    /\ getUsername \in SelUsers
    /\ isWithReplies = TRUE
    /\ pathname = <<"/">>
    /\ document \in SelDocuments
    /\ lastOp = Idle("new")
    /\ halted = FALSE

Select ==
    /\ lastOp.op = "new"
    /\ lastOp' = [Idle("select") EXCEPT
                     !.arg = FirstFlaggedArticle(getUsername, document)]
    /\ UNCHANGED <<state, loopHandle, intervals, flows, getUsername,
                   isWithReplies, pathname, document, halted>>

SelNext == Select

SelSpec == SelInit /\ [][SelNext]_vars

\* timers and microtasks of the host always run: a suspended activation
\* is eventually resumed
LiveSpec == Spec /\ WF_vars(Resume)

----------------------------------------------------------------------------
(* Progress: the agent is started on the user's own /with_replies view and *)
(* left running. Post 1 never completes its workflow, post 2 always does;  *)
(* the page shows both, or post 2 alone.                                   *)

Pressed == [see |-> "visible", click |-> "ok", error |-> NoError]

\* what the page answers to a step of the workflow of the given post
ProgUI(article, asks, confirming) ==
    IF ~asks THEN {Quiet}
    ELSE IF article = 2 THEN {Pressed}
    ELSE IF confirming THEN Responses \ {Pressed}
    ELSE Responses

ProgInit ==
    /\ state = [running |-> FALSE, deleting |-> FALSE, deletedCount |-> 0,
                lastError |-> Null]
    /\ loopHandle = 0
    /\ intervals = {}
    /\ flows = <<>>
    /\ getUsername = <<"@", "A", "l", " ">>
    /\ isWithReplies = TRUE
    /\ pathname = <<"/", "A", "l", "/", "w", "i", "t", "h", "_", "r", "e", "p",
                    "l", "i", "e", "s">>
    /\ document \in ProgDocuments
    /\ lastOp = Idle("new")
    /\ halted = FALSE

ProgStart ==
    \E ui \in ProgUI(findFirstFlaggedArticle[1], ~state.running, FALSE) :
        Commit(start(Agent, ui), "start", Null)

ProgTick ==
    \E id \in intervals :
      \E ui \in ProgUI(findFirstFlaggedArticle[1], Begins(Agent), FALSE) :
        LET m == runCycle(Agent, ui)
        IN  /\ m.begun > 0 => state.deletedCount < MaxDeleted
            /\ Commit(m, "tick", Null)

ProgResume ==
    \E k \in DOMAIN flows :
      \E ui \in ProgUI(flows[k].article, Asks(flows[k]),
                        flows[k].pc = "confirmWait") :
        Commit(deleteArticle(Agent, k, ui), "resume", Null)

ProgRender ==
    \E d \in ProgDocuments :
        /\ d # document
        /\ document' = d
        /\ lastOp' = Idle("render")
        /\ UNCHANGED <<state, loopHandle, intervals, flows, getUsername,
                       isWithReplies, pathname, halted>>

ProgNext ==
    \/ ProgStart
    \/ ProgTick
    \/ ProgResume
    \/ ProgRender

\* the recurring timer keeps firing and every delay ends
ProgSpec ==
    ProgInit /\ [][ProgNext]_vars /\ WF_vars(ProgTick) /\ WF_vars(ProgResume)

TypeOK ==
    /\ state.running \in BOOLEAN
    /\ state.deleting \in BOOLEAN
    /\ state.deletedCount \in 0..(MaxDeleted + 1)
    /\ Len(state.lastError) <= 1
    /\ loopHandle \in Nat
    /\ lastOp.emits \in 0..2

----------------------------------------------------------------------------
(* Properties.                                                             *)

\* the workflows that ended in the most recent operation
Ended == {lastOp.done[k] : k \in DOMAIN lastOp.done}

Failed(d) == d.result \in {"negative", "exception"}

\* C1: in every reachable state busy (state.deleting) implies running
\* (state.running).
C1_BusyImpliesRunning == state.deleting => state.running

\* C2: at most one deletion workflow is in flight at any time, and the busy
\* flag is set exactly while one is.
C2_OneWorkflow ==
    /\ Len(flows) <= 1
    /\ state.deleting <=> flows # <<>>

\* a run was stopped and restarted while a workflow was suspended, and a
\* timer tick that found a target began no second workflow
C2_Witness ==
    /\ lastOp.op = "tick"
    /\ lastOp.begun = 0
    /\ state.running
    /\ canOperate
    /\ findFirstFlaggedArticle # Null
    /\ Len(flows) = 1
    /\ flows[1].restarted

\* C3: the step in which a workflow succeeds increases deletedCount by
\* exactly one and clears busy.
C3_SuccessCounts ==
    [][(\E d \in {lastOp'.done[k] : k \in DOMAIN lastOp'.done} :
            d.result = "success")
         => /\ state'.deletedCount = state.deletedCount + 1
            /\ ~state'.deleting]_vars

\* a workflow that made its three clicks has just succeeded for the second
\* time in a run
C3_Witness ==
    /\ \E d \in Ended :
          /\ d.result = "success"
          /\ d.flow.clicks = <<"caret", "delete", "confirm">>
          /\ d.flow.count0 = 1
    /\ state.deletedCount = 2
    /\ ~state.deleting

\* C4: after a workflow that failed (a step exhausted its attempts, or an
\* exception was thrown) busy is false and, unless start() was called while
\* it was in flight, deletedCount is what it was when the workflow began.
C4_FailureKeepsCount ==
    \A d \in Ended :
        Failed(d) =>
            /\ ~state.deleting
            /\ ~d.flow.restarted => state.deletedCount = d.flow.count0

\* a workflow that began after one deletion has failed by an exception
C4_Witness ==
    \E d \in Ended :
        /\ d.result = "exception"
        /\ ~d.flow.restarted
        /\ d.flow.count0 = 1
        /\ state.deletedCount = 1

\* C5: whenever a workflow fails, by an exception or by a negative result,
\* lastError is set (non-null) when the cycle finishes.
C5_FailureRecorded ==
    \A d \in Ended : Failed(d) => state.lastError # Null

\* C6: start() while not running and unavailable leaves running false,
\* arms no timer, starts no scan cycle or workflow, sets lastError to a
\* non-empty reason and publishes status exactly once.
C6_StartUnavailable ==
    [][(lastOp'.op = "start" /\ ~state.running /\ ~canOperate)
         => /\ ~state'.running
            /\ loopHandle' = 0
            /\ intervals' = {}
            /\ lastOp'.begun = 0
            /\ lastOp'.stops = 0
            /\ flows' = flows
            /\ state'.deleting = state.deleting
            /\ state'.deletedCount = state.deletedCount
            /\ Truthy(state'.lastError)
            /\ state'.lastError = Some(getUnavailableReason)
            /\ lastOp'.emits = 1]_vars

\* start() has just refused to run on somebody else's /with_replies view,
\* replacing an older error
C6_Witness ==
    /\ lastOp.op = "start"
    /\ ~state.running
    /\ lastOp.emits = 1
    /\ lastOp.logs = <<>>
    /\ getNormalizedUsername # <<>>
    /\ isWithReplies
    /\ state.lastError = Some(MSG_NAVIGATE_OWN)
    /\ state.deletedCount > 0

\* C7: stop(reason) while not running changes neither running, deletedCount,
\* busy nor the timer; it sets lastError to the reason when one is supplied
\* (a non-empty string), leaves lastError unchanged otherwise, and publishes
\* status once.
C7_StopWhileIdle ==
    [][(lastOp'.op = "stop" /\ ~state.running)
         => /\ state'.running = state.running
            /\ state'.deletedCount = state.deletedCount
            /\ state'.deleting = state.deleting
            /\ loopHandle' = loopHandle
            /\ intervals' = intervals
            /\ flows' = flows
            /\ state'.lastError = IF Truthy(lastOp'.arg)
                                  THEN lastOp'.arg
                                  ELSE state.lastError
            /\ lastOp'.emits = 1]_vars

\* stop("manual") has just been called on an agent that was not running
\* (nothing was logged) and has replaced nothing but lastError
C7_Witness ==
    /\ lastOp.op = "stop"
    /\ lastOp.logs = <<>>
    /\ lastOp.arg = Some("manual")
    /\ lastOp.emits = 1
    /\ ~state.running
    /\ state.lastError = Some("manual")
    /\ state.deletedCount > 0

\* C8: handleContextChange() while running and unavailable calls stop(reason)
\* exactly once and publishes status exactly once, leaving running false, the
\* timer disarmed and lastError equal to the unavailability reason; in every
\* other case it publishes status exactly once and changes no state.
C8_ContextChange ==
    [][lastOp'.op = "handleContextChange"
         => IF state.running /\ ~canOperate
            THEN /\ lastOp'.stops = 1
                 /\ lastOp'.emits = 1
                 /\ ~state'.running
                 /\ loopHandle' = 0
                 /\ intervals' = {}
                 /\ state'.lastError = Some(getUnavailableReason)
            ELSE /\ lastOp'.stops = 0
                 /\ lastOp'.emits = 1
                 /\ state' = state
                 /\ loopHandle' = loopHandle
                 /\ intervals' = intervals
                 /\ flows' = flows]_vars

\* handleContextChange() has just stopped a running agent whose view was
\* no longer a /with_replies view
C8_Witness ==
    /\ lastOp.op = "handleContextChange"
    /\ lastOp.stops = 1
    /\ lastOp.emits = 1
    /\ lastOp.logs = <<"Stopped">>
    /\ ~state.running
    /\ intervals = {}
    /\ state.lastError = Some(MSG_ONLY_WITH_REPLIES)

\* the lookups made so far by the retry loop a flow is in are within the
\* attempt ceiling of that loop
WithinCeiling(f) ==
    /\ f.pc \in {"caretFound", "rejected", "caretWait"}
          => f.tries <= CARET_RETRIES
    /\ f.pc \in {"stepWait", "menuWait"} => f.tries <= MENU_ATTEMPTS
    /\ f.pc = "confirmWait" => f.tries <= CONFIRM_ATTEMPTS

\* C9: a workflow makes at most 5 caret lookups, MENU_ATTEMPTS menu scans
\* and CONFIRM_ATTEMPTS confirm lookups, and every started workflow ends with
\* busy cleared, whatever the page does.
C9_WorkflowTerminates ==
    /\ [](\A k \in DOMAIN flows : WithinCeiling(flows[k]))
    /\ [](\A d \in Ended : WithinCeiling(d.flow))
    /\ (state.deleting ~> (~state.deleting /\ flows = <<>>))

\* a workflow has just ended because the confirm button did not show in any
\* of its CONFIRM_ATTEMPTS lookups
C9_Witness ==
    /\ ~state.deleting
    /\ \E d \in Ended :
          /\ d.result = "negative"
          /\ d.flow.pc = "confirmWait"
          /\ d.flow.i = CONFIRM_ATTEMPTS - 1
          /\ d.flow.clicks = <<"caret", "delete">>

\* C10: stop() and destroy() leave a workflow in flight as it is, and after
\* either is called no timer tick fires and no workflow begins until start()
\* is called.
C10_StopDoesNotAbort ==
    [][/\ lastOp'.op \in {"stop", "destroy"}
            => /\ flows' = flows
               /\ state'.deleting = state.deleting
               /\ state'.deletedCount = state.deletedCount
       /\ (halted /\ lastOp'.op # "start")
            => /\ lastOp'.op # "tick"
               /\ lastOp'.begun = 0
               /\ Len(flows') <= Len(flows)]_vars

\* a workflow that was in flight when the agent was stopped has made its
\* clicks and has just been counted, the agent being still stopped
C10_Witness ==
    /\ halted
    /\ ~state.running
    /\ intervals = {}
    /\ state.deletedCount = 1
    /\ \E d \in Ended :
          /\ d.result = "success"
          /\ d.flow.clicks = <<"caret", "delete", "confirm">>
          /\ ~d.flow.restarted

\* C11: from every reachable state, start() called while the agent is
\* available leaves running true with the poll timer armed.
C11_StartRecovers ==
    [][(lastOp'.op = "start" /\ canOperate)
         => /\ state'.running
            /\ loopHandle' # 0
            /\ intervals' = {loopHandle'}]_vars

\* C12: a successful start() sets running, zeroes deletedCount, clears
\* lastError, arms the timer, publishes status and runs one scan cycle at
\* once, so that busy is true on return if a target is present; start()
\* while running changes no state and publishes nothing.
C12_StartEffects ==
    [][lastOp'.op = "start"
         => /\ (~state.running /\ canOperate)
                 => /\ state'.running
                    /\ state'.deletedCount = 0
                    /\ state'.lastError = Null
                    /\ loopHandle' # 0
                    /\ intervals' = {loopHandle'}
                    /\ lastOp'.emits >= 1
                    /\ lastOp'.status[1].running
                    /\ findFirstFlaggedArticle # Null
                          => /\ state'.deleting
                             /\ flows' # <<>>
                             /\ ~state.deleting => lastOp'.begun = 1
                    /\ findFirstFlaggedArticle = Null
                          => /\ lastOp'.begun = 0
                             /\ state'.deleting = state.deleting
            /\ state.running
                 => /\ state' = state
                    /\ loopHandle' = loopHandle
                    /\ intervals' = intervals
                    /\ flows' = flows
                    /\ lastOp'.emits = 0]_vars

\* start() has just begun a workflow in the call itself, clearing an error
\* of the run before
C12_Witness ==
    /\ lastOp.op = "start"
    /\ lastOp.begun = 1
    /\ lastOp.logs = <<"Started">>
    /\ lastOp.emits = 2
    /\ state.running
    /\ state.deleting
    /\ state.deletedCount = 0
    /\ state.lastError = Null
    /\ intervals # {}
    /\ Len(flows) = 1
    /\ flows[1].pc \in {"caretFound", "caretWait", "rejected"}

\* C13: the message of every published status is lastError if set, else by
\* priority: need-identity if no identity, wrong-view if the agent is
\* unavailable (canRun false), in-progress if busy, scanning if running,
\* else ready.
C13_MessageLadder ==
    LET d == lastOp.status[1]
        ladder ==
            IF Truthy(state.lastError) THEN state.lastError[1]
            ELSE IF d.username = Null
            THEN "Open a /with_replies page to detect your username."
            ELSE IF ~d.canRun
            THEN "Auto delete becomes available on /with_replies."
            ELSE IF d.deleting THEN "Deleting a flagged reply..."
            ELSE IF d.running THEN "Scanning flagged replies..."
            ELSE "Ready to delete flagged replies."
    IN  lastOp.status # Null => d.message = Some(ladder)

\* C14: findFirstFlaggedArticle returns the first unit, in document order
\* across the flagged items and then within an item, that holds a reference
\* equal to /<identity> or beginning with /<identity>/ (case-insensitive,
\* leading @ stripped) and no repost marker; units with a repost marker are
\* passed over; the result is none if no unit qualifies.
C14_FirstQualifyingUnit ==
    LET identity == ToLowerCase(StripAt(Trim(getUsername)))
        flagged(i) ==
            \E m \in DOMAIN PROBLEM_MARKERS :
                Includes(ToLowerCase(document[i].ghosted), PROBLEM_MARKERS[m])
        refers(a) ==
            \E k \in DOMAIN a.hrefs :
                \/ ToLowerCase(a.hrefs[k]) = <<"/">> \o identity
                \/ StartsWith(ToLowerCase(a.hrefs[k]),
                              <<"/">> \o identity \o <<"/">>)
        places == {<<i, j>> \in (1..MaxCells + 1) \X (1..MaxArticles + 1) :
                      /\ i \in DOMAIN document
                      /\ j \in DOMAIN document[i].articles}
        qualifies(p) ==
            /\ flagged(p[1])
            /\ refers(document[p[1]].articles[p[2]])
            /\ ~document[p[1]].articles[p[2]].unretweet
        earlier(p, q) == p[1] < q[1] \/ (p[1] = q[1] /\ p[2] < q[2])
        firsts == {p \in places :
                      /\ qualifies(p)
                      /\ \A q \in places : earlier(q, p) => ~qualifies(q)}
    IN  lastOp.op = "select"
            => IF firsts = {}
               THEN lastOp.arg = Null
               ELSE \E p \in firsts : lastOp.arg = Some(10 * p[1] + p[2])

\* selection for @Al has passed over a repost by Al and a unit of "alx" in
\* the first flagged item and returned the second unit of the second item
C14_Witness ==
    /\ lastOp.op = "select"
    /\ lastOp.arg = Some(22)
    /\ getUsername = <<"@", "A", "l", " ">>
    /\ Len(AllFlaggedCells(document)) = 2
    /\ Len(document[1].articles) = 2
    /\ document[1].articles[1].unretweet
    /\ document[1].articles[2].hrefs
           = << <<"/", "a", "l", "x", "/", "s", "t", "a", "t", "u", "s",
                  "/", "3">> >>
    /\ document[2].articles[1].hrefs = << <<"/", "B", "o">> >>

\* C15: every operation that changes the state record publishes status
\* before it yields, and the running, deleting and deletedCount of the status
\* published last equal the state at every suspension point.
C15_StatusFollowsState ==
    [][/\ state' # state => lastOp'.status # Null
       /\ lastOp'.status # Null
            => /\ lastOp'.status[1].running = state'.running
               /\ lastOp'.status[1].deleting = state'.deleting
               /\ lastOp'.status[1].deletedCount = state'.deletedCount]_vars

\* the end of a workflow after stop() has just published the new count
C15_Witness ==
    /\ lastOp.op = "resume"
    /\ lastOp.emits = 1
    /\ \E d \in Ended : d.result = "success"
    /\ ~state.running
    /\ lastOp.status[1].deletedCount = 1
    /\ ~lastOp.status[1].deleting
    /\ ~lastOp.status[1].running

\* the clicks a workflow has made when it is suspended at pc
ClicksAt(pc) ==
    CASE pc \in {"caretFound", "rejected", "caretWait"} -> <<>>
      [] pc \in {"stepWait", "menuWait"} -> <<"caret">>
      [] pc = "confirmWait" -> <<"caret", "delete">>
      [] pc = "afterDelete" -> <<"caret", "delete", "confirm">>

\* C16: the clicks of a workflow are made in the order caret, delete menu
\* item, confirm, each only after the one before; a workflow whose caret
\* lookup is exhausted makes no click, and a workflow returns true only
\* after the confirm click and the post-delete delay.
C16_ClickOrder ==
    /\ \A k \in DOMAIN flows : flows[k].clicks = ClicksAt(flows[k].pc)
    /\ \A d \in Ended :
          /\ d.result = "success"
                => /\ d.flow.pc = "afterDelete"
                   /\ d.flow.clicks = <<"caret", "delete", "confirm">>
          /\ d.result = "negative" => d.flow.clicks = ClicksAt(d.flow.pc)
          /\ d.result = "exception"
                => \E n \in 0..3 :
                      d.flow.clicks
                          = SubSeq(<<"caret", "delete", "confirm">>, 1, n)
          /\ (d.result = "negative" /\ d.flow.pc = "caretWait")
                => d.flow.clicks = <<>>

\* a workflow has just ended with the menu open and no delete item clicked
C16_Witness ==
    \E d \in Ended :
        /\ d.result = "negative"
        /\ d.flow.pc = "menuWait"
        /\ d.flow.i = MENU_ATTEMPTS - 1
        /\ d.flow.clicks = <<"caret">>
        /\ lastOp.logs = <<"Delete menu item not clicked">>

\* C17: a scan cycle that starts while running, not busy and unavailable
\* sets running to false, disarms the timer, sets lastError to the
\* unavailability reason, publishes status, and selects no target and starts
\* no workflow.
C17_SelfDeactivation ==
    [][(lastOp'.op = "tick" /\ state.running /\ ~state.deleting
          /\ ~canOperate)
         => /\ ~state'.running
            /\ loopHandle' = 0
            /\ intervals' = {}
            /\ state'.lastError = Some(getUnavailableReason)
            /\ lastOp'.stops = 1
            /\ lastOp'.emits = 1
            /\ lastOp'.begun = 0
            /\ flows' = flows
            /\ ~state'.deleting]_vars

\* a tick on somebody else's /with_replies view has just stopped the agent
\* although the document holds a flagged post of the user
C17_Witness ==
    /\ lastOp.op = "tick"
    /\ lastOp.stops = 1
    /\ lastOp.logs = <<"Stopped">>
    /\ ~state.running
    /\ ~state.deleting
    /\ flows = <<>>
    /\ intervals = {}
    /\ state.lastError = Some(MSG_NAVIGATE_OWN)
    /\ findFirstFlaggedArticle # Null

\* C18: at most one recurring poll timer is armed at any time, it is the one
\* loopHandle names, and none is armed while running is false.
C18_OneTimer ==
    /\ Cardinality(intervals) <= 1
    /\ loopHandle # 0 => intervals = {loopHandle}
    /\ loopHandle = 0 => intervals = {}
    /\ intervals # {} => state.running

\* start() after a stop() that found a workflow in flight has just armed
\* the one timer again
C18_Witness ==
    /\ lastOp.op = "start"
    /\ lastOp.logs = <<"Started">>
    /\ intervals = {loopHandle}
    /\ loopHandle # 0
    /\ state.running
    /\ Len(flows) = 1
    /\ flows[1].restarted

\* C19: while the agent runs on an available view, the timer keeps firing
\* and a post whose three steps succeed stays in the timeline, deletedCount
\* eventually increases, also when an earlier post fails every time.
C19_Progress ==
    \A n \in 0..(MaxDeleted - 1) :
        (state.running /\ state.deletedCount = n)
            ~> (state.deletedCount > n)

\* C20: a workflow begun before the latest start() changes neither
\* deletedCount nor lastError when it ends.
C20_CurrentRunOnly ==
    [][(\E i \in DOMAIN lastOp'.done : lastOp'.done[i].flow.restarted)
         => /\ state'.deletedCount = state.deletedCount
            /\ state'.lastError = state.lastError]_vars

====
